---- MODULE Spec2Model ----
(***************************************************************************)
(* Model of scripts/geocode_locations.py: the existing-entry reader, the   *)
(* location extractor, the geocode client and the batch driver (main).     *)
(*                                                                         *)
(* A Python str is a sequence of one-character strings, so that strip,     *)
(* split, substring tests, comparison and formatting are computed.  A CSV  *)
(* file is the sequence of rows csv.reader yields; the reference artifact  *)
(* is its sequence of lines.  Standard output, the lookups issued and the  *)
(* sleeps are recorded, in program order, in the variable trace.           *)
(***************************************************************************)
EXTENDS Integers, Sequences, FiniteSets

VARIABLES csv, ts, limit, run, pc, existing_locations, all_locations,
          new_locations, i, coords, success_count, failed_locations, trace

vars == <<csv, ts, limit, run, pc, existing_locations, all_locations,
          new_locations, i, coords, success_count, failed_locations, trace>>

(***************************************************************************)
(* Bounds of the model and constants of the program.                       *)
(***************************************************************************)
MaxRows == 3

MaxLimit == 2

MaxCellLen == 2

MaxExtractRows == 2

MaxLineToks == 5

ColumnIndex == 4

(***************************************************************************)
(* String literals of the program, as character sequences.                 *)
(***************************************************************************)
TsFileName == <<"l","o","c","a","t","i","o","n","C","o","o","r","d","i","n","a","t","e","s",".","t","s">>

S_FoundPre == <<"/","/"," ","F","o","u","n","d"," ">>

S_ExistingIn == <<" ","e","x","i","s","t","i","n","g"," ","l","o","c","a","t","i","o","n","s"," ","i","n"," ">>

S_TotalUnique == <<" ","t","o","t","a","l"," ","u","n","i","q","u","e"," ","l","o","c","a","t","i","o","n","s"," ","i","n"," ","C","S","V">>

S_Comment == <<"/","/"," ">>

S_ToGeocode == <<" ","l","o","c","a","t","i","o","n","s"," ","t","o"," ","g","e","o","c","o","d","e">>

S_Bare == <<"/","/">>

S_AllDone == <<"/","/"," ","A","l","l"," ","l","o","c","a","t","i","o","n","s"," ","a","l","r","e","a","d","y"," ","g","e","o","c","o","d","e","d","!">>

S_AddThese == <<"/","/"," ","A","d","d"," ","t","h","e","s","e"," ","e","n","t","r","i","e","s"," ","t","o"," ","I","S","R","A","E","L","_","L","O","C","A","T","I","O","N","_","C","O","O","R","D","I","N","A","T","E","S",":">>

S_ProgressPre == <<"/","/"," ","[">>

S_ProgressMid == <<"]"," ","G","e","o","c","o","d","i","n","g",":"," ">>

S_Dots == <<".",".",".">>

S_ErrorPre == <<"/","/"," ","E","r","r","o","r"," ","g","e","o","c","o","d","i","n","g"," ","'">>

S_ErrorMid == <<"'",":"," ">>

S_EntryPre == <<" "," ","'">>

S_EntryLat == <<"'",":"," ","{"," ","l","a","t","i","t","u","d","e",":"," ">>

S_EntryLon == <<","," ","l","o","n","g","i","t","u","d","e",":"," ">>

S_EntryEnd == <<" ","}",",">>

S_FailedPre == <<" "," ","/","/"," ","F","A","I","L","E","D",":"," ","'">>

S_FailedEnd == <<"'",":"," ","{"," ","l","a","t","i","t","u","d","e",":"," ","3","1",".","5",","," ","l","o","n","g","i","t","u","d","e",":"," ","3","4",".","8"," ","}",","," ","/","/"," ","D","E","F","A","U","L","T"," ","-"," ","m","a","n","u","a","l"," ","r","e","v","i","e","w"," ","n","e","e","d","e","d">>

S_Rule == <<"/","/"," ","=","=","=","=","=","=","=","=","=","=","=","=","=","=","=","=","=","=","=","=","=","=","=","=","=","=","=","=","=","=","=","=","=","=","=","=","=","=","=","=">>

S_Complete == <<"/","/"," ","G","e","o","c","o","d","i","n","g"," ","c","o","m","p","l","e","t","e","!">>

S_Success == <<"/","/"," ","S","u","c","c","e","s","s",":"," ">>

S_FailedList == <<"/","/"," ","F","a","i","l","e","d"," ","(">>

S_FailedListMid == <<")",":"," ">>

S_JoinSep == <<","," ">>

S_AndPre == <<"/","/"," "," "," ",".",".","."," ","a","n","d"," ">>

S_AndPost == <<" ","m","o","r","e">>

LATITUDE == <<"l","a","t","i","t","u","d","e">>

S_DefaultLat == <<"3","1",".","5">>

S_DefaultLon == <<"3","4",".","8">>

MsgNetwork == <<"<","u","r","l","o","p","e","n"," ","e","r","r","o","r"," ","u","n","r","e","a","c","h","a","b","l","e",">">>

MsgTimeout == <<"t","i","m","e","d"," ","o","u","t">>

MsgMalformed == <<"'","l","a","t","'">>

S_TsOpen == <<"e","x","p","o","r","t"," ","c","o","n","s","t"," ","I","S","R","A","E","L","_","L","O","C","A","T","I","O","N","_","C","O","O","R","D","I","N","A","T","E","S"," ","="," ","{">>

S_TsClose == <<"}",";">>

(***************************************************************************)
(* Python str operations.                                                  *)
(***************************************************************************)
Whitespace == {" ", "\t", "\n", "\r"}

\* str.strip(): leading and trailing whitespace removed
strip(s) ==
    LET keep == {k \in 1..Len(s) : s[k] \notin Whitespace}
    IN  IF keep = {} THEN <<>>
        ELSE SubSeq(s, CHOOSE k \in keep : \A j \in keep : k <= j,
                       CHOOSE k \in keep : \A j \in keep : j <= k)

\* str.split(sep) for a one-character separator: the pieces between the
\* occurrences of sep, one more piece than there are occurrences
split(s, sep) ==
    LET at     == {k \in 1..Len(s) : s[k] = sep}
        n      == Cardinality(at)
        pos(j) == CHOOSE p \in at : Cardinality({q \in at : q < p}) = j - 1
    IN  [j \in 1..(n + 1) |->
            SubSeq(s, IF j = 1 THEN 1 ELSE pos(j - 1) + 1,
                      IF j = n + 1 THEN Len(s) ELSE pos(j) - 1)]

\* sub in s
Contains(s, sub) ==
    \E k \in 1..(Len(s) - Len(sub) + 1) : SubSeq(s, k, k + Len(sub) - 1) = sub

RECURSIVE Join(_, _)
Join(strs, sep) ==
    IF strs = <<>> THEN <<>>
    ELSE IF Len(strs) = 1 THEN Head(strs)
    ELSE Head(strs) \o sep \o Join(Tail(strs), sep)

Digits == <<"0", "1", "2", "3", "4", "5", "6", "7", "8", "9">>

RECURSIVE Str(_)
\* str(n) of an int, as an f-string renders it
Str(n) ==
    IF n < 0 THEN <<"-">> \o Str(0 - n)
    ELSE IF n < 10 THEN <<Digits[n + 1]>>
    ELSE Str(n \div 10) \o <<Digits[(n % 10) + 1]>>

\* f"{v:.4f}" of a coordinate held in units of 1/10000 degree
Format4f(v) ==
    LET a  == IF v < 0 THEN 0 - v ELSE v
        fp == a % 10000
    IN  (IF v < 0 THEN <<"-">> ELSE <<>>)
        \o Str(a \div 10000) \o <<".">>
        \o <<Digits[(fp \div 1000) + 1], Digits[((fp \div 100) % 10) + 1],
             Digits[((fp \div 10) % 10) + 1], Digits[(fp % 10) + 1]>>

\* ord(c) for the characters location names are drawn from
CodePoint(c) ==
    CASE c = "\t" -> 9
      [] c = "\n" -> 10
      [] c = " "  -> 32
      [] c = "'"  -> 39
      [] c = "-"  -> 45
      [] c = "a"  -> 97
      [] c = "b"  -> 98
      [] OTHER    -> 120

RECURSIVE StrLess(_, _)
\* a < b on str: lexicographic by code point, a proper prefix is smaller
StrLess(a, b) ==
    IF b = <<>> THEN FALSE
    ELSE IF a = <<>> THEN TRUE
    ELSE IF Head(a) # Head(b) THEN CodePoint(Head(a)) < CodePoint(Head(b))
    ELSE StrLess(Tail(a), Tail(b))

RECURSIVE sorted(_)
\* sorted(S) of a set of str: the ascending list of its elements
sorted(S) ==
    IF S = {} THEN <<>>
    ELSE LET m == CHOOSE x \in S : \A y \in S : x = y \/ StrLess(x, y)
         IN  <<m>> \o sorted(S \ {m})

\* s[:n] for an int n (a negative n counts from the end)
Slice(s, n) ==
    IF n >= 0
    THEN SubSeq(s, 1, IF n < Len(s) THEN n ELSE Len(s))
    ELSE SubSeq(s, 1, IF Len(s) + n > 0 THEN Len(s) + n ELSE 0)

(***************************************************************************)
(* Standard output, lookups and sleeps, recorded in program order.  A      *)
(* print event keeps the arguments of its f-string; Text renders the line. *)
(***************************************************************************)
Event(ev, kind, loc, n, m, list, msg) ==
    [ev |-> ev, kind |-> kind, loc |-> loc, n |-> n, m |-> m,
     list |-> list, msg |-> msg]

Out(kind, loc, n, m) == Event("print", kind, loc, n, m, <<>>, <<>>)

\* a lookup sent for loc, with what came of it
RequestEvent(loc, outcome) == Event("request", outcome, loc, 0, 0, <<>>, <<>>)

SleepEvent == Event("sleep", "", <<>>, 0, 0, <<>>, <<>>)

Text(e) ==
    CASE e.kind = "found_existing" ->
            S_FoundPre \o Str(e.n) \o S_ExistingIn \o TsFileName
      [] e.kind = "found_total" -> S_FoundPre \o Str(e.n) \o S_TotalUnique
      [] e.kind = "to_geocode" -> S_Comment \o Str(e.n) \o S_ToGeocode
      [] e.kind = "bare" -> S_Bare
      [] e.kind = "all_done" -> S_AllDone
      [] e.kind = "add_these" -> S_AddThese
      [] e.kind = "blank" -> <<>>
      [] e.kind = "progress" ->
            S_ProgressPre \o Str(e.n) \o <<"/">> \o Str(e.m) \o S_ProgressMid
            \o e.loc \o S_Dots
      [] e.kind = "error" -> S_ErrorPre \o e.loc \o S_ErrorMid \o e.msg
      [] e.kind = "entry" ->
            S_EntryPre \o e.loc \o S_EntryLat \o Format4f(e.n)
            \o S_EntryLon \o Format4f(e.m) \o S_EntryEnd
      [] e.kind = "failed" -> S_FailedPre \o e.loc \o S_FailedEnd
      [] e.kind = "rule" -> S_Rule
      [] e.kind = "complete" -> S_Complete
      [] e.kind = "success" ->
            S_Success \o Str(e.n) \o <<"/">> \o Str(e.m)
      [] e.kind = "failed_list" ->
            S_FailedList \o Str(e.n) \o S_FailedListMid
            \o Join(e.list, S_JoinSep)
      [] e.kind = "and_more" -> S_AndPre \o Str(e.n) \o S_AndPost
      [] OTHER -> <<>>

(***************************************************************************)
(* read_existing_locations                                                 *)
(***************************************************************************)
\* what one line of the artifact adds to the set
LineAdds(line) ==
    LET parts == split(strip(line), "'")
    IN  IF /\ Contains(line, <<"{">>)
           /\ Contains(line, LATITUDE)
           /\ Len(parts) >= 2
        THEN {parts[2]}
        ELSE {}

\* the for loop over the lines of the artifact
ReadLines(lines) == UNION {LineAdds(lines[k]) : k \in 1..Len(lines)}

read_existing_locations(ts_file) ==
    IF ~ts_file.exists THEN {} ELSE ReadLines(ts_file.lines)

(***************************************************************************)
(* extract_unique_locations                                                *)
(***************************************************************************)
RECURSIVE ExtractRows(_, _, _)
\* the for loop over the rows after the header
ExtractRows(rows, column_index, locations) ==
    IF rows = <<>> THEN locations
    ELSE LET row == Head(rows)
         IN  ExtractRows(Tail(rows), column_index,
                 IF Len(row) > column_index
                 THEN LET location == strip(row[column_index + 1])
                      IN  IF location # <<>> /\ location # <<"-">>
                          THEN locations \cup {location}
                          ELSE locations
                 ELSE locations)

\* extract_unique_locations without the next(reader) that skips the header
extract_unique_locations_KeepsHeader(csv_file, column_index) ==
    ExtractRows(csv_file.rows, column_index, {})

\* next(reader) skips the header row; the caller has opened the file
extract_unique_locations(csv_file, column_index) ==
    ExtractRows(Tail(csv_file.rows), column_index, {})

(***************************************************************************)
(* geocode_location: one request; response is what the service, the        *)
(* network and the parse make of it.                                       *)
(***************************************************************************)
NoCoords == [found |-> FALSE, lat |-> 0, lon |-> 0]

ErrorText(kind) ==
    CASE kind = "network" -> MsgNetwork
      [] kind = "timeout" -> MsgTimeout
      [] OTHER -> MsgMalformed

\* geocode_location with the diagnostic printed for every lookup without coordinates
geocode_location_LogsEmpty(location, response) ==
    IF response.kind = "ok"
    THEN [coords |-> [found |-> TRUE, lat |-> response.lat, lon |-> response.lon],
          printed |-> <<>>]
    ELSE [coords |-> NoCoords,
          printed |-> <<Event("print", "error", location, 0, 0, <<>>,
                              ErrorText(response.kind))>>]

\* the value returned, and the lines printed on the way
geocode_location(location, response) ==
    IF response.kind = "ok"
    THEN [coords |-> [found |-> TRUE, lat |-> response.lat, lon |-> response.lon],
          printed |-> <<>>]
    ELSE IF response.kind = "empty"
    THEN [coords |-> NoCoords, printed |-> <<>>]
    ELSE [coords |-> NoCoords,
          printed |-> <<Event("print", "error", location, 0, 0, <<>>,
                              ErrorText(response.kind))>>]

(***************************************************************************)
(* Inputs: the CSV files, reference artifacts, limits and service          *)
(* responses the runs are checked over.                                    *)
(***************************************************************************)
SeqsUpTo(S, n) == UNION {[1..k -> S] : k \in 0..n}

Filler == <<"x">>

\* a row of n columns whose target column, when present, holds c
RowWith(n, c) == [k \in 1..n |-> IF k = ColumnIndex + 1 THEN c ELSE Filler]

HeaderRow == RowWith(ColumnIndex + 1, <<"a">>)

NoCsv == [exists |-> FALSE, rows |-> <<>>]

CsvOf(rows) == [exists |-> TRUE, rows |-> rows]

Alphabet == {" ", "-", "a"}

Cells == SeqsUpTo(Alphabet, MaxCellLen)

DataRows ==
    {RowWith(n, <<>>) : n \in 0..ColumnIndex}
    \cup {RowWith(n, c) : n \in {ColumnIndex + 1, ColumnIndex + 2}, c \in Cells}

ExtractCsvFiles ==
    {NoCsv, CsvOf(<<>>)}
    \cup {CsvOf(<<HeaderRow>> \o d) : d \in SeqsUpTo(DataRows, MaxExtractRows)}

\* the target cells of the batch runs' CSV files, in file order
MainCells == <<<<" ", "b", " ">>, <<"a", "'", "b">>, <<"-">>, <<"a">>>>

\* the k-th smallest element of a set of integers
Nth(I, k) == CHOOSE p \in I : Cardinality({q \in I : q < p}) = k - 1

\* the data rows holding the cells picked by the index set I
PickRows(I) ==
    [k \in 1..Cardinality(I) |-> RowWith(ColumnIndex + 1, MainCells[Nth(I, k)])]

MainCsvFiles ==
    {NoCsv, CsvOf(<<>>)}
    \cup {CsvOf(<<HeaderRow>> \o PickRows(I)) :
            I \in {J \in SUBSET (1..Len(MainCells)) : Cardinality(J) <= MaxRows}}

NoTs == [exists |-> FALSE, lines |-> <<>>]

TsOf(lines) == [exists |-> TRUE, lines |-> lines]

Line(text) == text \o <<"\n">>

EntryLine(name) == Line(Text(Out("entry", name, 317683, 352137)))

MainTsFiles ==
    {NoTs, TsOf(<<>>),
     TsOf(<<Line(S_TsOpen), EntryLine(<<"a">>), Line(S_TsClose)>>),
     TsOf(<<Line(S_TsOpen), EntryLine(<<"a">>),
            Line(Text(Out("failed", <<"b">>, 0, 0))), Line(S_TsClose)>>)}

LineTokens == {<<"'">>, <<"{">>, LATITUDE, <<"a">>}

RECURSIVE Flatten(_)
Flatten(toks) == IF toks = <<>> THEN <<>> ELSE Head(toks) \o Flatten(Tail(toks))

ReaderLines == {Line(Flatten(t)) : t \in SeqsUpTo(LineTokens, MaxLineToks)}

ReaderFiles ==
    {NoTs, TsOf(<<>>)}
    \cup {TsOf(<<l>>) : l \in ReaderLines}
    \cup {TsOf(<<l, EntryLine(<<"b">>)>>) : l \in ReaderLines}
    \cup {TsOf(<<EntryLine(<<"b">>), l>>) : l \in ReaderLines}

NoLimit == [given |-> FALSE, value |-> 0]

Limits == {NoLimit} \cup {[given |-> TRUE, value |-> v] : v \in (0 - 1)..MaxLimit}

Responses ==
    {[kind |-> "ok", lat |-> 312518, lon |-> 347913]}
    \cup {[kind |-> k, lat |-> 0, lon |-> 0] :
            k \in {"empty", "network", "timeout", "malformed"}}

(***************************************************************************)
(* main, one action per step of the script.                                *)
(***************************************************************************)
InitLocals ==
    /\ run = 1
    /\ pc = "start"
    /\ existing_locations = {}
    /\ all_locations = {}
    /\ new_locations = <<>>
    /\ i = 0
    /\ coords = NoCoords
    /\ success_count = 0
    /\ failed_locations = <<>>
    /\ trace = <<>>

Init ==
    /\ csv \in MainCsvFiles
    /\ ts \in MainTsFiles
    /\ limit \in Limits
    /\ InitLocals

\* existing_locations = read_existing_locations(ts_file), and its count line
ReadExisting ==
    /\ pc = "start"
    /\ existing_locations' = read_existing_locations(ts)
    /\ trace' = Append(trace,
                   Out("found_existing", <<>>,
                         Cardinality(read_existing_locations(ts)), 0))
    /\ pc' = "extract"
    /\ UNCHANGED <<csv, ts, limit, run, all_locations, new_locations, i,
                   coords, success_count, failed_locations>>

\* all_locations = extract_unique_locations(csv_file), and its count line
ExtractLocations ==
    /\ pc = "extract"
    /\ csv.exists
    /\ csv.rows # <<>>
    /\ all_locations' = extract_unique_locations(csv, ColumnIndex)
    /\ trace' = Append(trace,
                   Out("found_total", <<>>,
                         Cardinality(extract_unique_locations(csv, ColumnIndex)), 0))
    /\ pc' = "filter"
    /\ UNCHANGED <<csv, ts, limit, run, existing_locations, new_locations, i,
                   coords, success_count, failed_locations>>

\* open() of a missing CSV, or next(reader) on one without a header row,
\* raises and nothing catches it
ExtractFails ==
    /\ pc = "extract"
    /\ ~csv.exists \/ csv.rows = <<>>
    /\ pc' = "crashed"
    /\ UNCHANGED <<csv, ts, limit, run, existing_locations, all_locations,
                   new_locations, i, coords, success_count, failed_locations,
                   trace>>

\* FilterNew without the set difference
FilterNew_KeepsExisting ==
    /\ pc = "filter"
    /\ new_locations' = sorted(all_locations)
    /\ pc' = "limit"
    /\ UNCHANGED <<csv, ts, limit, run, existing_locations, all_locations, i,
                   coords, success_count, failed_locations, trace>>

\* new_locations = sorted(all_locations - existing_locations)
FilterNew ==
    /\ pc = "filter"
    /\ new_locations' = sorted(all_locations \ existing_locations)
    /\ pc' = "limit"
    /\ UNCHANGED <<csv, ts, limit, run, existing_locations, all_locations, i,
                   coords, success_count, failed_locations, trace>>

\* the list main goes on with: if args.limit: new_locations[:args.limit]
Limited(locations, lim) ==
    IF lim.given /\ lim.value # 0
    THEN Slice(locations, lim.value)
    ELSE locations

ApplyLimit ==
    /\ pc = "limit"
    /\ new_locations' = Limited(new_locations, limit)
    /\ trace' = trace \o <<Out("to_geocode", <<>>,
                                 Len(Limited(new_locations, limit)), 0),
                           Out("bare", <<>>, 0, 0)>>
    /\ pc' = "check"
    /\ UNCHANGED <<csv, ts, limit, run, existing_locations, all_locations, i,
                   coords, success_count, failed_locations>>

\* AllGeocoded without the return
AllGeocoded_FallsThrough ==
    /\ pc = "check"
    /\ new_locations = <<>>
    /\ trace' = Append(trace, Out("all_done", <<>>, 0, 0))
    /\ pc' = "summary"
    /\ UNCHANGED <<csv, ts, limit, run, existing_locations, all_locations,
                   new_locations, i, coords, success_count, failed_locations>>

\* if not new_locations: the notice, and return
AllGeocoded ==
    /\ pc = "check"
    /\ new_locations = <<>>
    /\ trace' = Append(trace, Out("all_done", <<>>, 0, 0))
    /\ pc' = "done"
    /\ UNCHANGED <<csv, ts, limit, run, existing_locations, all_locations,
                   new_locations, i, coords, success_count, failed_locations>>

BeginBatch ==
    /\ pc = "check"
    /\ new_locations # <<>>
    /\ trace' = trace \o <<Out("add_these", <<>>, 0, 0),
                           Out("blank", <<>>, 0, 0)>>
    /\ success_count' = 0
    /\ failed_locations' = <<>>
    /\ i' = 1
    /\ pc' = "loop"
    /\ UNCHANGED <<csv, ts, limit, run, existing_locations, all_locations,
                   new_locations, coords>>

\* top of the loop body: the progress line of location i
Progress ==
    /\ pc = "loop"
    /\ trace' = Append(trace,
                   Out("progress", new_locations[i], i, Len(new_locations)))
    /\ pc' = "geocode"
    /\ UNCHANGED <<csv, ts, limit, run, existing_locations, all_locations,
                   new_locations, i, coords, success_count, failed_locations>>

\* Geocode with the except clause missing: an exception leaves main
Geocode_Uncaught ==
    /\ pc = "geocode"
    /\ \E response \in Responses :
          LET r == geocode_location(new_locations[i], response)
          IN  /\ coords' = r.coords
              /\ trace' = Append(trace, RequestEvent(new_locations[i], response.kind))
              /\ pc' = IF response.kind \in {"ok", "empty"} THEN "result" ELSE "crashed"
    /\ UNCHANGED <<csv, ts, limit, run, existing_locations, all_locations,
                   new_locations, i, success_count, failed_locations>>

\* coords = geocode_location(location)
Geocode ==
    /\ pc = "geocode"
    /\ \E response \in Responses :
          LET r == geocode_location(new_locations[i], response)
          IN  /\ coords' = r.coords
              /\ trace' = trace \o <<RequestEvent(new_locations[i], response.kind)>> \o r.printed
    /\ pc' = "result"
    /\ UNCHANGED <<csv, ts, limit, run, existing_locations, all_locations,
                   new_locations, i, success_count, failed_locations>>

\* if coords: the entry line, success_count += 1
ResultOk ==
    /\ pc = "result"
    /\ coords.found
    /\ trace' = Append(trace,
                   Out("entry", new_locations[i], coords.lat, coords.lon))
    /\ success_count' = success_count + 1
    /\ pc' = "pause"
    /\ UNCHANGED <<csv, ts, limit, run, existing_locations, all_locations,
                   new_locations, i, coords, failed_locations>>

\* ResultFailed counting the location as a success as well
ResultFailed_Counts ==
    /\ pc = "result"
    /\ ~coords.found
    /\ failed_locations' = Append(failed_locations, new_locations[i])
    /\ trace' = Append(trace, Out("failed", new_locations[i], 0, 0))
    /\ success_count' = success_count + 1
    /\ pc' = "pause"
    /\ UNCHANGED <<csv, ts, limit, run, existing_locations, all_locations,
                   new_locations, i, coords>>

\* else: failed_locations.append(location), the placeholder line
ResultFailed ==
    /\ pc = "result"
    /\ ~coords.found
    /\ failed_locations' = Append(failed_locations, new_locations[i])
    /\ trace' = Append(trace, Out("failed", new_locations[i], 0, 0))
    /\ pc' = "pause"
    /\ UNCHANGED <<csv, ts, limit, run, existing_locations, all_locations,
                   new_locations, i, coords, success_count>>

\* if i < len(new_locations): time.sleep(1.1), then the next iteration
Sleep ==
    /\ pc = "pause"
    /\ i < Len(new_locations)
    /\ trace' = Append(trace, SleepEvent)
    /\ i' = i + 1
    /\ pc' = "loop"
    /\ UNCHANGED <<csv, ts, limit, run, existing_locations, all_locations,
                   new_locations, coords, success_count, failed_locations>>

\* LoopEnd with the sleep taken after the last location too
LoopEnd_Sleeps ==
    /\ pc = "pause"
    /\ ~(i < Len(new_locations))
    /\ trace' = Append(trace, SleepEvent)
    /\ pc' = "summary"
    /\ UNCHANGED <<csv, ts, limit, run, existing_locations, all_locations,
                   new_locations, i, coords, success_count, failed_locations>>

\* after the last location the loop ends without a sleep
LoopEnd ==
    /\ pc = "pause"
    /\ ~(i < Len(new_locations))
    /\ pc' = "summary"
    /\ UNCHANGED <<csv, ts, limit, run, existing_locations, all_locations,
                   new_locations, i, coords, success_count, failed_locations,
                   trace>>

SummaryLines ==
    <<Out("blank", <<>>, 0, 0),
      Out("rule", <<>>, 0, 0),
      Out("complete", <<>>, 0, 0),
      Out("success", <<>>, success_count, Len(new_locations))>>
    \o (IF failed_locations # <<>>
        THEN <<Event("print", "failed_list", <<>>, Len(failed_locations), 0,
                     Slice(failed_locations, 10), <<>>)>>
             \o (IF Len(failed_locations) > 10
                 THEN <<Out("and_more", <<>>, Len(failed_locations) - 10, 0)>>
                 ELSE <<>>)
        ELSE <<>>)
    \o <<Out("rule", <<>>, 0, 0)>>

Summary ==
    /\ pc = "summary"
    /\ trace' = trace \o SummaryLines
    /\ pc' = "done"
    /\ UNCHANGED <<csv, ts, limit, run, existing_locations, all_locations,
                   new_locations, i, coords, success_count, failed_locations>>

\* the lines of standard output, each with its newline
OutputLines(t) ==
    LET printed == SelectSeq(t, LAMBDA e : e.ev = "print")
    IN  [k \in 1..Len(printed) |-> Line(Text(printed[k]))]

\* between two runs every line the first run printed is added to the
\* reference artifact, and the script is started again on the same CSV
Rerun ==
    /\ pc = "done"
    /\ run = 1
    /\ ts' = TsOf(ts.lines \o OutputLines(trace))
    /\ run' = 2
    /\ pc' = "start"
    /\ existing_locations' = {}
    /\ all_locations' = {}
    /\ new_locations' = <<>>
    /\ i' = 0
    /\ coords' = NoCoords
    /\ success_count' = 0
    /\ failed_locations' = <<>>
    /\ trace' = <<>>
    /\ UNCHANGED <<csv, limit>>

Next ==
    \/ ReadExisting
    \/ ExtractLocations
    \/ ExtractFails
    \/ FilterNew
    \/ ApplyLimit
    \/ AllGeocoded
    \/ BeginBatch
    \/ Progress
    \/ Geocode
    \/ ResultOk
    \/ ResultFailed
    \/ Sleep
    \/ LoopEnd
    \/ Summary
    \/ Rerun

Spec == Init /\ [][Next]_vars

(***************************************************************************)
(* extract_unique_locations alone, over CSV files of every row shape.      *)
(***************************************************************************)
InitExtract ==
    /\ csv \in ExtractCsvFiles
    /\ ts = NoTs
    /\ limit = NoLimit
    /\ InitLocals

NextExtract == ReadExisting \/ ExtractLocations \/ ExtractFails

SpecExtract == InitExtract /\ [][NextExtract]_vars

(***************************************************************************)
(* read_existing_locations alone, over artifacts of every line shape.      *)
(***************************************************************************)
InitReader ==
    /\ csv = CsvOf(<<HeaderRow>>)
    /\ ts \in ReaderFiles
    /\ limit = NoLimit
    /\ InitLocals

NextReader == ReadExisting

SpecReader == InitReader /\ [][NextReader]_vars

(***************************************************************************)
(* Properties.                                                             *)
(***************************************************************************)
Locs(events) == [k \in 1..Len(events) |-> events[k].loc]

IsPrefix(a, b) == Len(a) <= Len(b) /\ a = SubSeq(b, 1, Len(a))

Requests == SelectSeq(trace, LAMBDA e : e.ev = "request")

Lines(kinds) == SelectSeq(trace, LAMBDA e : e.ev = "print" /\ e.kind \in kinds)

Sleeps == SelectSeq(trace, LAMBDA e : e.ev = "sleep")

Pending == sorted(all_locations \ existing_locations)

ExceptionKinds == {"network", "timeout", "malformed"}

\* C1: once the limit step is done, a supplied limit L >= 0 (0 included)
\* leaves exactly the first min(L, |P|) elements of P = sorted(extracted -
\* existing), in order, and without a limit the whole of P is kept.
C1_LimitPrefix ==
    pc = "check" =>
        IF ~limit.given THEN new_locations = Pending
        ELSE limit.value >= 0 =>
                new_locations =
                    SubSeq(Pending, 1,
                           IF limit.value < Len(Pending)
                           THEN limit.value ELSE Len(Pending))

\* C2: in the second run, after every line the first (unlimited) run printed
\* was added to the artifact, the existing set covers the extracted set, the
\* pending list is empty and no lookup is issued.
C2_Idempotent ==
    (run = 2 /\ ~limit.given) =>
        /\ pc \notin {"start", "extract"} => all_locations \subseteq existing_locations
        /\ pc \notin {"start", "extract", "filter"} => new_locations = <<>>
        /\ Requests = <<>>

\* C3: before the limit is applied the pending list is strictly ascending
\* and its elements are exactly the extracted locations not in the existing
\* set.
C3_PendingSorted ==
    pc = "limit" =>
        /\ \A k \in 1..(Len(new_locations) - 1) :
              StrLess(new_locations[k], new_locations[k + 1])
        /\ {new_locations[k] : k \in 1..Len(new_locations)}
              = {l \in all_locations : l \notin existing_locations}

C3_Witness ==
    /\ pc = "limit"
    /\ Len(new_locations) >= 2
    /\ \E l \in all_locations : l \in existing_locations

\* C4 as claimed: every failed lookup, an empty result array included, is
\* followed by a diagnostic line naming the location and then by the FAILED
\* placeholder line.
C4_DiagnosticAlways ==
    (pc = "pause" /\ ~coords.found) =>
        LET n == Len(trace)
        IN  /\ trace[n] = Out("failed", new_locations[i], 0, 0)
            /\ trace[n - 1].ev = "print"
            /\ trace[n - 1].kind = "error"
            /\ trace[n - 1].loc = new_locations[i]
            /\ Contains(Text(trace[n - 1]), new_locations[i])

\* C4 as amended: every failed lookup ends in the FAILED placeholder line for
\* its location and the loop goes on; a lookup that raised is followed by the
\* diagnostic line naming the location and then the placeholder, a lookup
\* with an empty result array by the placeholder alone.
C4_FailureLines ==
    (pc = "pause" /\ ~coords.found) =>
        LET n == Len(trace)
        IN  /\ trace[n] = Out("failed", new_locations[i], 0, 0)
            /\ \/ trace[n - 1] = RequestEvent(new_locations[i], "empty")
               \/ /\ trace[n - 1].ev = "print"
                  /\ trace[n - 1].kind = "error"
                  /\ trace[n - 1].loc = new_locations[i]
                  /\ Contains(Text(trace[n - 1]), new_locations[i])
                  /\ trace[n - 2].ev = "request"
                  /\ trace[n - 2].kind \in ExceptionKinds
                  /\ trace[n - 2].loc = new_locations[i]
            /\ ENABLED (Sleep \/ LoopEnd)

C4_Witness ==
    /\ pc = "pause"
    /\ ~coords.found
    /\ trace[Len(trace) - 1] = RequestEvent(new_locations[i], "empty")
    /\ Lines({"error"}) # <<>>

\* C5: a sleep comes only right after a result line and right before the
\* next progress line; every progress line but the first follows a sleep; a
\* finished run of N locations slept N-1 times if N >= 2 and never if
\* N <= 1.
C5_Pauses ==
    /\ \A k \in 1..Len(trace) :
          trace[k].ev = "sleep" =>
              /\ k > 1
              /\ trace[k - 1].ev = "print"
              /\ trace[k - 1].kind \in {"entry", "failed"}
              /\ k < Len(trace) =>
                    (trace[k + 1].ev = "print" /\ trace[k + 1].kind = "progress")
    /\ \A k \in 1..Len(trace) :
          (trace[k].ev = "print" /\ trace[k].kind = "progress" /\ trace[k].n > 1)
              => trace[k - 1].ev = "sleep"
    /\ pc \in {"summary", "done"} =>
          /\ Len(Sleeps) = IF Len(new_locations) >= 2
                           THEN Len(new_locations) - 1 ELSE 0
          /\ \A k \in 1..Len(trace) :
                trace[k].ev = "sleep" => \E j \in (k + 1)..Len(trace) :
                                            trace[j].ev = "request"

C5_Witness ==
    /\ pc = "done"
    /\ Len(new_locations) = 3
    /\ Len(Sleeps) = 2

\* C6: the lookups sent are, in order, the pending locations handled so far,
\* one each; a run that read both inputs and has pending locations never
\* stops before the summary, whatever the lookups return, and has then sent
\* exactly one lookup per pending location.
C6_OneLookupEach ==
    /\ IsPrefix(Locs(Requests), new_locations)
    /\ pc \in {"loop", "geocode"} => Len(Requests) = i - 1
    /\ pc \in {"result", "pause"} => Len(Requests) = i
    /\ (pc = "done" /\ new_locations # <<>>) =>
          /\ Locs(Requests) = new_locations
          /\ Lines({"complete"}) # <<>>
          /\ trace[Len(trace)] = Out("rule", <<>>, 0, 0)
    /\ pc = "crashed" => Lines({"found_total"}) = <<>>
    /\ pc \in {"filter", "limit", "check", "loop", "geocode", "result",
               "pause", "summary"} => ENABLED Next

C6_Witness ==
    /\ pc = "done"
    /\ Len(new_locations) = 3
    /\ {Requests[k].kind : k \in 1..Len(Requests)} = {"ok", "empty", "timeout"}

\* the locations handled so far by the loop
Handled ==
    IF pc = "pause" THEN i
    ELSE IF pc \in {"loop", "geocode", "result"} THEN i - 1
    ELSE IF pc \in {"summary", "done"} THEN Len(new_locations)
    ELSE 0

\* position of a location in the pending list
IndexOf(l) == CHOOSE k \in 1..Len(new_locations) : new_locations[k] = l

\* C9: with h locations handled, success_count + len(failed_locations) = h;
\* each handled location has exactly one result line, an entry line counted
\* in success_count or a FAILED line showing 31.5 and 34.8 and recorded in
\* failed_locations; an empty result array always gives the FAILED line;
\* failed_locations follows the order of the pending list without repeats,
\* and at the summary success_count = N - len(failed_locations).
C9_Counts ==
    pc \in {"loop", "geocode", "result", "pause", "summary", "done"} =>
        /\ success_count + Len(failed_locations) = Handled
        /\ Locs(Lines({"entry", "failed"})) = SubSeq(new_locations, 1, Handled)
        /\ Len(Lines({"entry"})) = success_count
        /\ Locs(Lines({"failed"})) = failed_locations
        /\ \A k \in 1..Len(trace) :
              (trace[k].ev = "print" /\ trace[k].kind = "failed") =>
                  /\ Contains(Text(trace[k]), S_DefaultLat)
                  /\ Contains(Text(trace[k]), S_DefaultLon)
        /\ \A k \in 1..Len(trace) :
              (trace[k].ev = "request" /\ trace[k].kind = "empty") =>
                  IF k = Len(trace) THEN pc = "result" /\ ~coords.found
                  ELSE trace[k + 1] = Out("failed", trace[k].loc, 0, 0)
        /\ \A a \in 1..Len(failed_locations) :
              /\ \E k \in 1..Len(new_locations) :
                    new_locations[k] = failed_locations[a]
              /\ \A b \in (a + 1)..Len(failed_locations) :
                    IndexOf(failed_locations[a]) < IndexOf(failed_locations[b])
        /\ pc \in {"summary", "done"} =>
              success_count = Len(new_locations) - Len(failed_locations)

C9_Witness ==
    /\ pc = "done"
    /\ success_count = 1
    /\ Len(failed_locations) = 2
    /\ \E k \in 1..Len(Requests) : Requests[k].kind = "empty"

\* C10: a run that ends with an empty processed pending list printed the
\* completion notice last and sent no lookup, slept never and printed no
\* entry, placeholder, progress or summary line; a run that ends with a
\* non-empty one sent a lookup and printed the summary block, not the notice.
C10_EmptyStops ==
    /\ pc = "summary" => new_locations # <<>>
    /\ pc = "done" =>
          IF new_locations = <<>>
          THEN /\ trace[Len(trace)] = Out("all_done", <<>>, 0, 0)
               /\ Requests = <<>>
               /\ Sleeps = <<>>
               /\ Lines({"entry", "failed", "progress", "add_these", "rule",
                         "complete", "success", "failed_list"}) = <<>>
          ELSE /\ Requests # <<>>
               /\ Lines({"complete"}) # <<>>
               /\ Lines({"success"}) # <<>>
               /\ Lines({"all_done"}) = <<>>

C10_Witness ==
    /\ pc = "done"
    /\ run = 1
    /\ new_locations = <<>>
    /\ all_locations # {}
    /\ all_locations \subseteq existing_locations

\* t is s without its leading and trailing whitespace
IsTrimOf(t, s) ==
    /\ t = <<>> \/ (t[1] \notin Whitespace /\ t[Len(t)] \notin Whitespace)
    /\ \E a \in 0..Len(s) :
          /\ a + Len(t) <= Len(s)
          /\ SubSeq(s, a + 1, a + Len(t)) = t
          /\ \A k \in 1..Len(s) :
                (k <= a \/ k > a + Len(t)) => s[k] \in Whitespace

\* every contiguous piece of s
Pieces(s) == {SubSeq(s, a, b) : a \in 1..(Len(s) + 1), b \in 0..Len(s)}

\* C7: the extracted set holds exactly the trimmed target cells of the rows
\* after the header that have more than ColumnIndex columns, except the
\* empty string and "-"; shorter rows and the header row add nothing.
C7_Extracted ==
    pc = "filter" =>
        LET wide == {r \in 2..Len(csv.rows) : Len(csv.rows[r]) > ColumnIndex}
        IN  /\ \A l \in all_locations :
                  /\ l # <<>>
                  /\ l # <<"-">>
                  /\ l[1] \notin Whitespace
                  /\ l[Len(l)] \notin Whitespace
                  /\ \E r \in wide : IsTrimOf(l, csv.rows[r][ColumnIndex + 1])
            /\ \A r \in wide :
                  \A t \in Pieces(csv.rows[r][ColumnIndex + 1]) :
                      (/\ IsTrimOf(t, csv.rows[r][ColumnIndex + 1])
                       /\ t # <<>>
                       /\ t # <<"-">>) => t \in all_locations

C7_Witness ==
    /\ pc = "filter"
    /\ \E r \in 2..Len(csv.rows) : Len(csv.rows[r]) <= ColumnIndex
    /\ \E r \in 2..Len(csv.rows) :
          /\ Len(csv.rows[r]) > ColumnIndex
          /\ csv.rows[r][ColumnIndex + 1] = <<" ", "-">>
    /\ all_locations = {}

\* the text between the first and the second single quote of a line
BetweenQuotes(line) ==
    LET at == {k \in 1..Len(line) : line[k] = "'"}
        q1 == CHOOSE p \in at : \A q \in at : p <= q
        q2 == CHOOSE p \in at \ {q1} : \A q \in at \ {q1} : p <= q
    IN  SubSeq(line, q1 + 1, q2 - 1)

\* C8: the set read from the artifact holds, for each line with a brace,
\* the token latitude and at least two single quotes, the text between the
\* first two quotes, and nothing else; a missing artifact gives the empty
\* set.
C8_QuotedNames ==
    pc = "extract" =>
        existing_locations =
            IF ~ts.exists THEN {}
            ELSE {BetweenQuotes(ts.lines[k]) :
                    k \in {j \in 1..Len(ts.lines) :
                             /\ Contains(ts.lines[j], <<"{">>)
                             /\ Contains(ts.lines[j], LATITUDE)
                             /\ Cardinality({p \in 1..Len(ts.lines[j]) :
                                               ts.lines[j][p] = "'"}) >= 2}}

====
